---- MODULE Spec2Model ----
(***************************************************************************)
(* GeminiWatermarkTool: the watermark compositing engine                    *)
(* (src/src/core/watermark_engine.cpp) and the placement resolver used by   *)
(* the detector (src/src/core/watermark_detector.cpp).                      *)
(*                                                                          *)
(* Data representation.                                                     *)
(*  - A cv::Mat holding an image is a record [cols, rows, channels, data].  *)
(*    Images reach 2000 x 2000 pixels, so data holds the pixels at the      *)
(*    sample coordinates SamplePoints(cols, rows) (image corners and the    *)
(*    borders of the placement rectangles); every operation of the engine   *)
(*    treats pixels independently, so a sample pixel gets exactly the value *)
(*    the full image would hold there.  A pixel is a tuple of 8-bit channel *)
(*    values.                                                               *)
(*  - An alpha map is a record [cols, rows, tile]: the alpha of column i,   *)
(*    row j is tile[((i + j) % Len(tile)) + 1] / AlphaDen, the numerators   *)
(*    being the 8-bit values of the reference capture.                      *)
(***************************************************************************)
EXTENDS Integers, Sequences, FiniteSets, TLC

VARIABLES
    alpha_map_small_,   \* WatermarkEngine::alpha_map_small_
    alpha_map_large_,   \* WatermarkEngine::alpha_map_large_
    logo_value_,        \* WatermarkEngine::logo_value_
    image,              \* the caller's cv::Mat, passed by reference
    call,               \* the last engine call: name, arguments, outcome
    prior,              \* the engine call before the last one
    ncalls,             \* number of engine calls made so far
    query,              \* the last call of a free function of the resolver
    threads             \* per thread: its image and its engine call in progress

vars == <<alpha_map_small_, alpha_map_large_, logo_value_, image, call, prior,
          ncalls, query, threads>>

-----------------------------------------------------------------------------
(* Bounds of the model *)

\* engine calls per behaviour
MaxCalls == 2

-----------------------------------------------------------------------------
(* Program constants *)

\* the size threshold of get_watermark_config / get_watermark_size
SizeThreshold == 1024
\* Small: 48x48 logo, 32 px margins
SmallLogo == 48
SmallMargin == 32
\* Large: 96x96 logo, 64 px margins
LargeLogo == 96
LargeMargin == 64
\* alpha = bg_value / 255
AlphaDen == 255
\* largest value of an 8-bit channel
MaxIntensity == 255

Max(a, b) == IF a >= b THEN a ELSE b
Min(a, b) == IF a <= b THEN a ELSE b

-----------------------------------------------------------------------------
(* cv::Point, cv::Rect *)

Point(x, y) == [x |-> x, y |-> y]
Rect(x, y, w, h) == [x |-> x, y |-> y, width |-> w, height |-> h]

\* cv::Rect operator& : the intersection, the empty Rect() when disjoint
RectAnd(a, b) ==
    LET x1 == Max(a.x, b.x)
        y1 == Max(a.y, b.y)
        w  == Min(a.x + a.width, b.x + b.width) - x1
        h  == Min(a.y + a.height, b.y + b.height) - y1
    IN  IF w <= 0 \/ h <= 0 THEN Rect(0, 0, 0, 0) ELSE Rect(x1, y1, w, h)

\* cv::Rect::contains
Contains(r, x, y) ==
    /\ r.x <= x /\ x < r.x + r.width
    /\ r.y <= y /\ y < r.y + r.height

-----------------------------------------------------------------------------
(* Position resolver *)

WatermarkPosition(mr, mb, ls) ==
    [margin_right |-> mr, margin_bottom |-> mb, logo_size |-> ls]

SmallConfig == WatermarkPosition(SmallMargin, SmallMargin, SmallLogo)
LargeConfig == WatermarkPosition(LargeMargin, LargeMargin, LargeLogo)

\* a size test that admits the threshold itself
get_watermark_size_ge(image_width, image_height) ==
    IF image_width >= SizeThreshold /\ image_height >= SizeThreshold
    THEN "Large" ELSE "Small"

get_watermark_size(image_width, image_height) ==
    IF image_width > SizeThreshold /\ image_height > SizeThreshold
    THEN "Large" ELSE "Small"

get_watermark_config(image_width, image_height) ==
    IF image_width > SizeThreshold /\ image_height > SizeThreshold
    THEN LargeConfig ELSE SmallConfig

\* WatermarkPosition::get_position (declared in watermark_engine.hpp):
\* top-left corner of the logo, a negative coordinate clamped to 0
get_position(config, image_width, image_height) ==
    Point(Max(0, image_width - config.margin_right - config.logo_size),
          Max(0, image_height - config.margin_bottom - config.logo_size))

\* a fallback region that takes the raw corner and swaps nothing else
get_fallback_watermark_region_raw(image_width, image_height) ==
    LET config == get_watermark_config(image_width, image_height)
    IN  Rect(image_width - config.margin_right - config.logo_size,
             image_height - config.margin_bottom - config.logo_size,
             config.logo_size, config.logo_size)

\* a fallback region whose box is sized by the margin
get_fallback_watermark_region_margin(image_width, image_height) ==
    LET config == get_watermark_config(image_width, image_height)
        pos    == get_position(config, image_width, image_height)
    IN  Rect(pos.x, pos.y, config.margin_right, config.margin_bottom)

get_fallback_watermark_region(image_width, image_height) ==
    LET config == get_watermark_config(image_width, image_height)
        pos    == get_position(config, image_width, image_height)
    IN  Rect(pos.x, pos.y, config.logo_size, config.logo_size)

-----------------------------------------------------------------------------
(* cv::Mat holding an 8-bit image *)

\* distances <<from the right edge, from the bottom edge>> of the sampled
\* pixels: the last pixel, pixels on both sides of each border of the Small
\* and the Large box, a pixel inside both boxes off their diagonals, and pixels
\* level with a box but beside or above it
SampleOffsets ==
    {<<1, 1>>, <<8, 8>>, <<33, 33>>, <<65, 65>>, <<70, 65>>, <<80, 80>>,
     <<81, 81>>, <<160, 160>>, <<161, 161>>, <<33, 81>>, <<81, 33>>, <<1, 80>>}

SamplePoints(cols, rows) ==
    {p \in {<<0, 0>>} \cup {<<cols - o[1], rows - o[2]>> : o \in SampleOffsets} :
        0 <= p[1] /\ p[1] < cols /\ 0 <= p[2] /\ p[2] < rows}

\* cv::Mat::empty
Empty(mat) == mat.cols = 0 \/ mat.rows = 0

\* the value the caller's image holds in channel c of pixel (x, y)
PixelPattern(seed, x, y, c) == (seed + 7 * x + 13 * y + 50 * c) % (MaxIntensity + 1)

MkImage(cols, rows, channels, seed) ==
    [cols |-> cols, rows |-> rows, channels |-> channels,
     data |-> [p \in SamplePoints(cols, rows) |->
                 [c \in 1..channels |-> PixelPattern(seed, p[1], p[2], c)]]]

\* a uniform image: every channel of every pixel holds value
FlatImage(cols, rows, channels, value) ==
    [cols |-> cols, rows |-> rows, channels |-> channels,
     data |-> [p \in SamplePoints(cols, rows) |-> [c \in 1..channels |-> value]]]

\* "Ensure BGR format" with the 1-channel branch left out
EnsureBGR_no_gray(mat) ==
    IF mat.channels = 4
    THEN [mat EXCEPT !.channels = 3,
                     !.data = [p \in DOMAIN mat.data |-> SubSeq(mat.data[p], 1, 3)]]
    ELSE mat

\* "Ensure BGR format": cv::COLOR_BGRA2BGR drops the fourth channel,
\* cv::COLOR_GRAY2BGR copies the gray value to the three channels
EnsureBGR(mat) ==
    IF mat.channels = 4
    THEN [mat EXCEPT !.channels = 3,
                     !.data = [p \in DOMAIN mat.data |-> SubSeq(mat.data[p], 1, 3)]]
    ELSE IF mat.channels = 1
    THEN [mat EXCEPT !.channels = 3,
                     !.data = [p \in DOMAIN mat.data |->
                                 <<mat.data[p][1], mat.data[p][1], mat.data[p][1]>>]]
    ELSE mat

-----------------------------------------------------------------------------
(* Alpha maps *)

AlphaMap(cols, rows, tile) == [cols |-> cols, rows |-> rows, tile |-> tile]

\* numerator of the alpha of column i, row j
AlphaAt(alpha_map, i, j) == alpha_map.tile[((i + j) % Len(alpha_map.tile)) + 1]

TileValues(alpha_map) == {alpha_map.tile[k] : k \in 1..Len(alpha_map.tile)}

SetMin(S) == CHOOSE m \in S : \A v \in S : m <= v
SetMax(S) == CHOOSE m \in S : \A v \in S : m >= v

\* the results of cv::resize the model follows: every output value is a
\* weighted mean of source values, so it lies between their extremes
ResizePicks == {"min", "max"}

\* cv::resize(src, dst, cv::Size(width, height), 0, 0, interpolation)
resize(src, width, height, interpolation, pick) ==
    LET lo == SetMin(TileValues(src))
        hi == SetMax(TileValues(src))
    IN  AlphaMap(width, height, << IF pick = "min" THEN lo ELSE hi >>)

\* calculate_alpha_map (blend_modes): alpha = bg_value / 255 per pixel; the
\* numerators of the map are the capture's values
calculate_alpha_map(bg_capture) ==
    AlphaMap(bg_capture.cols, bg_capture.rows, bg_capture.tile)

\* alpha maps taken from the captures as they come
init_alpha_maps_no_resize(bg_small, bg_large, pick) ==
    [small |-> calculate_alpha_map(bg_small),
     large |-> calculate_alpha_map(bg_large)]

init_alpha_maps(bg_small, bg_large, pick) ==
    LET small_resized ==
            IF bg_small.cols /= SmallLogo \/ bg_small.rows /= SmallLogo
            THEN resize(bg_small, SmallLogo, SmallLogo, "INTER_AREA", pick)
            ELSE bg_small
        large_resized ==
            IF bg_large.cols /= LargeLogo \/ bg_large.rows /= LargeLogo
            THEN resize(bg_large, LargeLogo, LargeLogo, "INTER_AREA", pick)
            ELSE bg_large
    IN  [small |-> calculate_alpha_map(small_resized),
         large |-> calculate_alpha_map(large_resized)]

\* the map and, for the call record, the member it is
get_alpha_map(size) ==
    IF size = "Small"
    THEN [map |-> alpha_map_small_, from |-> "alpha_map_small_"]
    ELSE [map |-> alpha_map_large_, from |-> "alpha_map_large_"]

-----------------------------------------------------------------------------
(* Alpha blending (blend_modes) *)

\* alpha within 1/EpsilonDen of 1 is not inverted
EpsilonDen == 1000

AlphaNearOne(a) == a * EpsilonDen >= (EpsilonDen - 1) * AlphaDen

\* the integer nearest to n / d for d > 0, a value exactly halfway between
\* two integers going to the even one (cv::saturate_cast<uchar> of a float)
RoundDiv(n, d) ==
    LET q == (2 * n + d) \div (2 * d)
    IN  IF (2 * n + d) % (2 * d) = 0 /\ q % 2 = 1 THEN q - 1 ELSE q

\* store into an 8-bit channel
Saturate(v) == Max(0, Min(MaxIntensity, v))

\* output = a * logoIntensity + (1 - a) * input
BlendForward(input, a, logo_value) ==
    Saturate(RoundDiv(a * logo_value + (AlphaDen - a) * input, AlphaDen))

\* output = (blended - a * logoIntensity) / (1 - a); a pixel whose alpha is
\* within epsilon of 1 keeps its blended value
BlendInverse(blended, a, logo_value) ==
    IF AlphaNearOne(a)
    THEN blended
    ELSE Saturate(RoundDiv(AlphaDen * blended - a * logo_value, AlphaDen - a))

\* the part of the placed alpha map that lies inside the image
BlendRegion(mat, alpha_map, pos) ==
    RectAnd(Rect(pos.x, pos.y, alpha_map.cols, alpha_map.rows),
            Rect(0, 0, mat.cols, mat.rows))

add_watermark_alpha_blend(mat, alpha_map, pos, logo_value) ==
    LET roi == BlendRegion(mat, alpha_map, pos)
    IN  [mat EXCEPT !.data =
            [p \in DOMAIN mat.data |->
                IF Contains(roi, p[1], p[2])
                THEN [c \in 1..mat.channels |->
                        BlendForward(mat.data[p][c],
                                     AlphaAt(alpha_map, p[1] - pos.x, p[2] - pos.y),
                                     logo_value)]
                ELSE mat.data[p]]]

remove_watermark_alpha_blend(mat, alpha_map, pos, logo_value) ==
    LET roi == BlendRegion(mat, alpha_map, pos)
    IN  [mat EXCEPT !.data =
            [p \in DOMAIN mat.data |->
                IF Contains(roi, p[1], p[2])
                THEN [c \in 1..mat.channels |->
                        BlendInverse(mat.data[p][c],
                                     AlphaAt(alpha_map, p[1] - pos.x, p[2] - pos.y),
                                     logo_value)]
                ELSE mat.data[p]]]

-----------------------------------------------------------------------------
(* WatermarkEngine: the outcome of a call *)

NoRect == Rect(0, 0, 0, 0)
NoPoint == Point(0, 0)
NoMap == AlphaMap(0, 0, <<>>)

EmptyImageError == "Empty image provided"
ResizeError == "cv::resize: dsize is empty"

\* the call threw: the image is as the call left it when throwing
Thrown(mat, what) ==
    [status |-> "error", what |-> what, image |-> mat, size |-> "none",
     pos |-> NoPoint, alpha |-> NoMap, from |-> "none", interp |-> "none"]

\* the call returned
Returned(mat, size, pos, alpha, from, interp) ==
    [status |-> "ok", what |-> "", image |-> mat, size |-> size,
     pos |-> pos, alpha |-> alpha, from |-> from, interp |-> interp]

-----------------------------------------------------------------------------
(* WatermarkEngine: default placement *)

\* a placement that always takes the large alpha map
remove_placement_large_map(mat, force_size) ==
    LET size   == IF force_size = "none"
                  THEN get_watermark_size(mat.cols, mat.rows) ELSE force_size
        config == IF size = "Small"
                  THEN WatermarkPosition(32, 32, 48) ELSE WatermarkPosition(64, 64, 96)
    IN  [size |-> size, config |-> config,
         pos |-> get_position(config, mat.cols, mat.rows),
         alpha_map |-> get_alpha_map("Large")]

\* a placement whose margins and logo size follow the image whatever is forced
remove_placement_config_by_image(mat, force_size) ==
    LET size   == IF force_size = "none"
                  THEN get_watermark_size(mat.cols, mat.rows) ELSE force_size
        config == get_watermark_config(mat.cols, mat.rows)
    IN  [size |-> size, config |-> config,
         pos |-> get_position(config, mat.cols, mat.rows),
         alpha_map |-> get_alpha_map(size)]

\* remove_watermark: "Determine watermark size" .. get_alpha_map
remove_placement(mat, force_size) ==
    LET size   == IF force_size = "none"
                  THEN get_watermark_size(mat.cols, mat.rows) ELSE force_size
        config == IF size = "Small"
                  THEN WatermarkPosition(32, 32, 48) ELSE WatermarkPosition(64, 64, 96)
    IN  [size |-> size, config |-> config,
         pos |-> get_position(config, mat.cols, mat.rows),
         alpha_map |-> get_alpha_map(size)]

\* a placement of add_watermark that takes 1024 x 1024 for Large
add_placement_size_ge(mat, force_size) ==
    LET size   == IF force_size = "none"
                  THEN get_watermark_size_ge(mat.cols, mat.rows) ELSE force_size
        config == IF size = "Small"
                  THEN WatermarkPosition(32, 32, 48) ELSE WatermarkPosition(64, 64, 96)
    IN  [size |-> size, config |-> config,
         pos |-> get_position(config, mat.cols, mat.rows),
         alpha_map |-> get_alpha_map(size)]

\* add_watermark: "Determine watermark size" .. get_alpha_map
add_placement(mat, force_size) ==
    LET size   == IF force_size = "none"
                  THEN get_watermark_size(mat.cols, mat.rows) ELSE force_size
        config == IF size = "Small"
                  THEN WatermarkPosition(32, 32, 48) ELSE WatermarkPosition(64, 64, 96)
    IN  [size |-> size, config |-> config,
         pos |-> get_position(config, mat.cols, mat.rows),
         alpha_map |-> get_alpha_map(size)]

\* remove_watermark without the empty-image check
remove_watermark_unchecked(mat, force_size) ==
    LET bgr == EnsureBGR(mat)
        pl  == remove_placement(bgr, force_size)
    IN  Returned(remove_watermark_alpha_blend(bgr, pl.alpha_map.map, pl.pos,
                                              logo_value_),
                 pl.size, pl.pos, pl.alpha_map.map, pl.alpha_map.from, "none")

\* remove_watermark that applies the forward blend
remove_watermark_forward(mat, force_size) ==
    IF Empty(mat)
    THEN Thrown(mat, EmptyImageError)
    ELSE
    LET bgr == EnsureBGR(mat)
        pl  == remove_placement(bgr, force_size)
    IN  Returned(add_watermark_alpha_blend(bgr, pl.alpha_map.map, pl.pos,
                                           logo_value_),
                 pl.size, pl.pos, pl.alpha_map.map, pl.alpha_map.from, "none")

remove_watermark(mat, force_size) ==
    IF Empty(mat)
    THEN Thrown(mat, EmptyImageError)
    ELSE
    LET bgr == EnsureBGR(mat)
        pl  == remove_placement(bgr, force_size)
    IN  Returned(remove_watermark_alpha_blend(bgr, pl.alpha_map.map, pl.pos,
                                              logo_value_),
                 pl.size, pl.pos, pl.alpha_map.map, pl.alpha_map.from, "none")

\* add_watermark that applies the inverse blend
add_watermark_inverse(mat, force_size) ==
    IF Empty(mat)
    THEN Thrown(mat, EmptyImageError)
    ELSE
    LET bgr == EnsureBGR(mat)
        pl  == add_placement(bgr, force_size)
    IN  Returned(remove_watermark_alpha_blend(bgr, pl.alpha_map.map, pl.pos,
                                              logo_value_),
                 pl.size, pl.pos, pl.alpha_map.map, pl.alpha_map.from, "none")

add_watermark(mat, force_size) ==
    IF Empty(mat)
    THEN Thrown(mat, EmptyImageError)
    ELSE
    LET bgr == EnsureBGR(mat)
        pl  == add_placement(bgr, force_size)
    IN  Returned(add_watermark_alpha_blend(bgr, pl.alpha_map.map, pl.pos,
                                           logo_value_),
                 pl.size, pl.pos, pl.alpha_map.map, pl.alpha_map.from, "none")

-----------------------------------------------------------------------------
(* WatermarkEngine: custom region *)

\* an interpolation that is bilinear only when both sides grow
create_interpolated_alpha_and(target_width, target_height, pick) ==
    LET source == alpha_map_large_
    IN  IF target_width = source.cols /\ target_height = source.rows
        THEN [status |-> "ok", map |-> source, from |-> "alpha_map_large_",
              interp |-> "clone"]
        ELSE
        LET interp_method ==
                IF target_width > source.cols /\ target_height > source.rows
                THEN "INTER_LINEAR" ELSE "INTER_AREA"
        IN  IF target_width <= 0 \/ target_height <= 0
            THEN [status |-> "error", map |-> NoMap, from |-> "alpha_map_large_",
                  interp |-> interp_method]
            ELSE [status |-> "ok",
                  map |-> resize(source, target_width, target_height,
                                 interp_method, pick),
                  from |-> "alpha_map_large_", interp |-> interp_method]

\* cv::resize throws when the target size is empty (a width or height <= 0)
create_interpolated_alpha(target_width, target_height, pick) ==
    LET source == alpha_map_large_
    IN  IF target_width = source.cols /\ target_height = source.rows
        THEN [status |-> "ok", map |-> source, from |-> "alpha_map_large_",
              interp |-> "clone"]
        ELSE
        LET interp_method ==
                IF target_width > source.cols \/ target_height > source.rows
                THEN "INTER_LINEAR" ELSE "INTER_AREA"
        IN  IF target_width <= 0 \/ target_height <= 0
            THEN [status |-> "error", map |-> NoMap, from |-> "alpha_map_large_",
                  interp |-> interp_method]
            ELSE [status |-> "ok",
                  map |-> resize(source, target_width, target_height,
                                 interp_method, pick),
                  from |-> "alpha_map_large_", interp |-> interp_method]

\* a selection that takes a canonical map when either side matches
remove_custom_alpha_or(region, pick) ==
    IF region.width = 48 \/ region.height = 48
    THEN [status |-> "ok", map |-> alpha_map_small_, from |-> "alpha_map_small_",
          interp |-> "none"]
    ELSE IF region.width = 96 \/ region.height = 96
    THEN [status |-> "ok", map |-> alpha_map_large_, from |-> "alpha_map_large_",
          interp |-> "none"]
    ELSE create_interpolated_alpha(region.width, region.height, pick)

\* remove_watermark_custom: "Check for exact match with standard sizes" ..
\* create_interpolated_alpha
remove_custom_alpha(region, pick) ==
    IF region.width = 48 /\ region.height = 48
    THEN [status |-> "ok", map |-> alpha_map_small_, from |-> "alpha_map_small_",
          interp |-> "none"]
    ELSE IF region.width = 96 /\ region.height = 96
    THEN [status |-> "ok", map |-> alpha_map_large_, from |-> "alpha_map_large_",
          interp |-> "none"]
    ELSE create_interpolated_alpha(region.width, region.height, pick)

\* add_watermark_custom: the same selection
add_custom_alpha(region, pick) ==
    IF region.width = 48 /\ region.height = 48
    THEN [status |-> "ok", map |-> alpha_map_small_, from |-> "alpha_map_small_",
          interp |-> "none"]
    ELSE IF region.width = 96 /\ region.height = 96
    THEN [status |-> "ok", map |-> alpha_map_large_, from |-> "alpha_map_large_",
          interp |-> "none"]
    ELSE create_interpolated_alpha(region.width, region.height, pick)

\* remove_watermark_custom that builds pos from (region.y, region.x)
remove_watermark_custom_swapped(mat, region, pick) ==
    IF Empty(mat)
    THEN Thrown(mat, EmptyImageError)
    ELSE
    LET bgr          == EnsureBGR(mat)
        custom_alpha == remove_custom_alpha(region, pick)
        pos          == Point(region.y, region.x)
    IN  IF custom_alpha.status = "error"
        THEN Thrown(bgr, ResizeError)
        ELSE Returned(remove_watermark_alpha_blend(bgr, custom_alpha.map, pos,
                                                   logo_value_),
                      "none", pos, custom_alpha.map, custom_alpha.from,
                      custom_alpha.interp)

remove_watermark_custom(mat, region, pick) ==
    IF Empty(mat)
    THEN Thrown(mat, EmptyImageError)
    ELSE
    LET bgr          == EnsureBGR(mat)
        custom_alpha == remove_custom_alpha(region, pick)
        pos          == Point(region.x, region.y)
    IN  IF custom_alpha.status = "error"
        THEN Thrown(bgr, ResizeError)
        ELSE Returned(remove_watermark_alpha_blend(bgr, custom_alpha.map, pos,
                                                   logo_value_),
                      "none", pos, custom_alpha.map, custom_alpha.from,
                      custom_alpha.interp)

add_watermark_custom(mat, region, pick) ==
    IF Empty(mat)
    THEN Thrown(mat, EmptyImageError)
    ELSE
    LET bgr          == EnsureBGR(mat)
        custom_alpha == add_custom_alpha(region, pick)
        pos          == Point(region.x, region.y)
    IN  IF custom_alpha.status = "error"
        THEN Thrown(bgr, ResizeError)
        ELSE Returned(add_watermark_alpha_blend(bgr, custom_alpha.map, pos,
                                                logo_value_),
                      "none", pos, custom_alpha.map, custom_alpha.from,
                      custom_alpha.interp)

-----------------------------------------------------------------------------
(* Inputs *)

\* reference captures handed to the constructor, with the logo value:
\* canonical sizes, and captures that init_alpha_maps has to resize
EngineSetups ==
    { [bg_small |-> AlphaMap(48, 48, <<64, 169>>),
       bg_large |-> AlphaMap(96, 96, <<128>>), logo_value |-> 255],
      [bg_small |-> AlphaMap(48, 48, <<200, 254>>),
       bg_large |-> AlphaMap(96, 96, <<255, 30>>), logo_value |-> 255],
      [bg_small |-> AlphaMap(50, 50, <<1>>),
       bg_large |-> AlphaMap(100, 120, <<10>>), logo_value |-> 200] }

\* width and height of the caller's images; <<0, 0>> is an image without pixels,
\* <<2000, 1000>> has one side above the size threshold
ImageDims == {<<0, 0>>, <<40, 30>>, <<1024, 1024>>, <<2000, 1000>>, <<1100, 1025>>}

ChannelCounts == {1, 3, 4}

\* every size as a 3-channel image, the 1024 x 1024 one in 1 and 4 channels
\* as well, and a uniform gray image
InputImages ==
    {MkImage(d[1], d[2], 3, 90) : d \in ImageDims} \cup
    {MkImage(1024, 1024, ch, 90) : ch \in ChannelCounts} \cup
    {FlatImage(1024, 1024, 3, 180)}

\* std::optional<WatermarkSize> force_size
ForceSizes == {"none", "Small", "Large"}

\* custom rectangles for an image: the two canonical sizes over the default
\* boxes, a non-square box that crosses the right and bottom edges, a box
\* right of the image, a box without width right of the image
CustomRegions(mat) ==
    {Rect(mat.cols - 80, mat.rows - 80, 48, 48),
     Rect(mat.cols - 160, mat.rows - 160, 96, 96),
     Rect(mat.cols - 33, mat.rows - 81, 48, 96),
     Rect(mat.cols, mat.rows - 33, 100, 20),
     Rect(mat.cols, mat.rows - 33, 0, 20)}

\* arguments of the free functions of the resolver
QueryDims == {0, 1, 40, 47, 48, 79, 80, 81, 159, 160, 161, 1000, 1024, 1025, 2000}

-----------------------------------------------------------------------------
(* State machine *)

CallRecord(op, force_size, region, pre, r) ==
    [op |-> op, force_size |-> force_size, region |-> region, pre |-> pre,
     status |-> r.status, what |-> r.what, size |-> r.size, pos |-> r.pos,
     alpha |-> r.alpha, from |-> r.from, interp |-> r.interp]

NoCall ==
    CallRecord("none", "none", NoRect, MkImage(0, 0, 3, 0), Thrown(NoMap, ""))

NoQuery == [fn |-> "none", width |-> 0, height |-> 0, result |-> "none"]

\* the engine after WatermarkEngine::WatermarkEngine
Constructed(setup, pick) ==
    LET maps == init_alpha_maps(setup.bg_small, setup.bg_large, pick)
    IN  /\ alpha_map_small_ = maps.small
        /\ alpha_map_large_ = maps.large
        /\ logo_value_ = setup.logo_value

Init ==
    /\ \E setup \in EngineSetups, pick \in ResizePicks : Constructed(setup, pick)
    /\ image \in InputImages
    /\ call = NoCall
    /\ prior = NoCall
    /\ ncalls = 0
    /\ query = NoQuery
    /\ threads = << >>

\* an engine call leaves the engine's members as they are
Called(rec, mat) ==
    /\ image' = mat
    /\ prior' = call
    /\ call' = rec
    /\ ncalls' = ncalls + 1
    /\ UNCHANGED <<alpha_map_small_, alpha_map_large_, logo_value_, query, threads>>

RemoveWatermark ==
    /\ ncalls < MaxCalls
    /\ \E force_size \in ForceSizes :
        LET r == remove_watermark(image, force_size)
        IN  Called(CallRecord("remove_watermark", force_size, NoRect, image, r),
                   r.image)

AddWatermark ==
    /\ ncalls < MaxCalls
    /\ \E force_size \in ForceSizes :
        LET r == add_watermark(image, force_size)
        IN  Called(CallRecord("add_watermark", force_size, NoRect, image, r),
                   r.image)

RemoveWatermarkCustom ==
    /\ ncalls < MaxCalls
    /\ \E region \in CustomRegions(image), pick \in ResizePicks :
        LET r == remove_watermark_custom(image, region, pick)
        IN  Called(CallRecord("remove_watermark_custom", "none", region, image, r),
                   r.image)

AddWatermarkCustom ==
    /\ ncalls < MaxCalls
    /\ \E region \in CustomRegions(image), pick \in ResizePicks :
        LET r == add_watermark_custom(image, region, pick)
        IN  Called(CallRecord("add_watermark_custom", "none", region, image, r),
                   r.image)

\* the caller replaces a buffer that holds no pixels by a decoded image
LoadImage ==
    /\ Empty(image)
    /\ image' \in {m \in InputImages : ~Empty(m)}
    /\ UNCHANGED <<alpha_map_small_, alpha_map_large_, logo_value_, call, prior,
                   ncalls, query, threads>>

Next ==
    \/ RemoveWatermark
    \/ AddWatermark
    \/ RemoveWatermarkCustom
    \/ AddWatermarkCustom
    \/ LoadImage

Spec == Init /\ [][Next]_vars

-----------------------------------------------------------------------------
(* The free functions of the position resolver, called with any dimensions *)

Answered(fn, w, h, result) ==
    /\ query' = [fn |-> fn, width |-> w, height |-> h, result |-> result]
    /\ UNCHANGED <<alpha_map_small_, alpha_map_large_, logo_value_, image, call,
                   prior, ncalls, threads>>

GetWatermarkSize ==
    \E w \in QueryDims, h \in QueryDims :
        Answered("get_watermark_size", w, h, get_watermark_size(w, h))

GetWatermarkConfig ==
    \E w \in QueryDims, h \in QueryDims :
        Answered("get_watermark_config", w, h, get_watermark_config(w, h))

GetFallbackWatermarkRegion ==
    \E w \in QueryDims, h \in QueryDims :
        Answered("get_fallback_watermark_region", w, h,
                 get_fallback_watermark_region(w, h))

InitResolver ==
    /\ Constructed(CHOOSE s \in EngineSetups : s.bg_small.cols = 48 /\ s.logo_value = 255
                                               /\ Len(s.bg_large.tile) = 1, "min")
    /\ image = MkImage(0, 0, 3, 0)
    /\ call = NoCall
    /\ prior = NoCall
    /\ ncalls = 0
    /\ query = NoQuery
    /\ threads = << >>

NextResolver ==
    \/ GetWatermarkSize
    \/ GetWatermarkConfig
    \/ GetFallbackWatermarkRegion

SpecResolver == InitResolver /\ [][NextResolver]_vars

-----------------------------------------------------------------------------
(* Properties of the position resolver (SpecResolver) *)

\* both dimensions strictly above 1024
BothAbove1024(w, h) == w > 1024 /\ h > 1024

\* C1: the size class is Large exactly when width > 1024 and height > 1024 and
\* Small otherwise, and get_watermark_config returns {64, 64, 96} exactly when
\* get_watermark_size returns Large and {32, 32, 48} exactly when it returns
\* Small.
C1_SizeClassAndConfig ==
    /\ query.fn = "get_watermark_size" =>
        /\ query.result \in {"Small", "Large"}
        /\ query.result = "Large" <=> BothAbove1024(query.width, query.height)
    /\ query.fn = "get_watermark_config" =>
        /\ get_watermark_size(query.width, query.height) = "Large" <=>
                query.result = [margin_right |-> 64, margin_bottom |-> 64,
                                logo_size |-> 96]
        /\ get_watermark_size(query.width, query.height) = "Small" <=>
                query.result = [margin_right |-> 32, margin_bottom |-> 32,
                                logo_size |-> 48]
        /\ query.result.logo_size = 96 <=> BothAbove1024(query.width, query.height)

\* get_watermark_size has answered Small for the 1024 x 1024 image
C1_Witness ==
    /\ query.fn = "get_watermark_size"
    /\ query.width = 1024 /\ query.height = 1024
    /\ query.result = "Small"

\* margin and logo size of the size class of a w x h image
ClassMargin(w, h) == IF BothAbove1024(w, h) THEN 64 ELSE 32
ClassLogo(w, h) == IF BothAbove1024(w, h) THEN 96 ELSE 48

\* C2: for an image whose width and height are at least margin + logo_size of
\* its size class, get_fallback_watermark_region returns the box with
\* x = W - margin_right - logo_size, y = H - margin_bottom - logo_size and
\* width = height = logo_size.
C2_FallbackRegionPosition ==
    LET w == query.width
        h == query.height
        m == ClassMargin(w, h)
        l == ClassLogo(w, h)
    IN  (query.fn = "get_fallback_watermark_region" /\ w >= m + l /\ h >= m + l) =>
            query.result = [x |-> w - m - l, y |-> h - m - l,
                            width |-> l, height |-> l]

\* the fallback region of the 2000 x 2000 image is the 96 x 96 box at (1840, 1840)
C2_Witness ==
    /\ query.fn = "get_fallback_watermark_region"
    /\ query.width = 2000 /\ query.height = 2000
    /\ query.result = [x |-> 1840, y |-> 1840, width |-> 96, height |-> 96]

-----------------------------------------------------------------------------
(* Properties of the compositing engine (Spec) *)

RemoveOps == {"remove_watermark", "remove_watermark_custom"}
AddOps == {"add_watermark", "add_watermark_custom"}
CustomOps == {"remove_watermark_custom", "add_watermark_custom"}

\* the last call ran on an image with pixels, so image is what it left
CallOnPixels == call.op /= "none" /\ ~Empty(call.pre)
CallOk == CallOnPixels /\ call.status = "ok"

\* the rectangle the last call placed its alpha map at
PlacedRect == Rect(call.pos.x, call.pos.y, call.alpha.cols, call.alpha.rows)

\* sample pixel p lies under the alpha map of the last call
InBlend(p) == Contains(PlacedRect, p[1], p[2])

\* numerator of the alpha the last call applied to sample pixel p
AlphaOf(p) == AlphaAt(call.alpha, p[1] - call.pos.x, p[2] - call.pos.y)

Within1(a, b) == a - b <= 1 /\ b - a <= 1

\* add_watermark followed by remove_watermark with the same size selection
RoundTrip ==
    /\ prior.op = "add_watermark" /\ prior.status = "ok"
    /\ call.op = "remove_watermark" /\ call.status = "ok"
    /\ call.force_size = prior.force_size

RoundTripWithin1 ==
    \A p \in DOMAIN image.data : \A c \in 1..3 :
        Within1(image.data[p][c], EnsureBGR(prior.pre).data[p][c])

\* C4 as stated: for any 8-bit image and any alpha map in which no pixel has
\* alpha >= 1 - epsilon, add_watermark then remove_watermark with the same size
\* selection returns every channel of every pixel to within 1 of its original
\* value.
C4_RoundTrip_AnyAlphaBelowOne ==
    (RoundTrip /\ \A a \in TileValues(call.alpha) : a * 1000 < 999 * 255)
        => RoundTripWithin1

\* C4 amended: the same, for an alpha map all of whose alphas are below 2/3.
C4_RoundTrip_AlphaBelowTwoThirds ==
    (RoundTrip /\ \A a \in TileValues(call.alpha) : 3 * a < 2 * 255)
        => RoundTripWithin1

\* a round trip through a map of alphas below 2/3 in which add_watermark
\* changed a pixel
C4_Witness ==
    /\ RoundTrip
    /\ \A a \in TileValues(call.alpha) : 3 * a < 2 * 255
    /\ \E p \in DOMAIN image.data : call.pre.data[p] /= EnsureBGR(prior.pre).data[p]

AddTwice ==
    /\ prior.op = "add_watermark" /\ prior.status = "ok"
    /\ call.op = "add_watermark" /\ call.status = "ok"
    /\ call.force_size = prior.force_size

\* C6 as stated: a second add_watermark changes an already watermarked image
\* whose region pixels are below the logo intensity where alpha is positive.
C6_SecondAddChangesImage ==
    (/\ AddTwice
     /\ \E p \in DOMAIN image.data : InBlend(p) /\ AlphaOf(p) > 0
     /\ \A p \in DOMAIN image.data : (InBlend(p) /\ AlphaOf(p) > 0) =>
            \A c \in 1..3 : call.pre.data[p][c] < logo_value_)
    => image /= call.pre

\* C6 amended: a second add_watermark raises every region pixel below the logo
\* intensity for which alpha * (logo - pixel) > 1/2, and leaves unchanged those
\* for which alpha * (logo - pixel) < 1/2.
C6_SecondAddCompounds ==
    AddTwice =>
        \A p \in DOMAIN image.data : InBlend(p) =>
            \A c \in 1..3 :
                LET y == call.pre.data[p][c]
                    gain == 2 * AlphaOf(p) * (logo_value_ - y)
                IN  y < logo_value_ =>
                        /\ gain > 255 => image.data[p][c] > y
                        /\ gain < 255 => image.data[p][c] = y

\* the second add_watermark raised a pixel the first one had already raised
C6_Witness ==
    /\ AddTwice
    /\ \E p \in DOMAIN image.data : \E c \in 1..3 :
        /\ InBlend(p)
        /\ EnsureBGR(prior.pre).data[p][c] < call.pre.data[p][c]
        /\ call.pre.data[p][c] < image.data[p][c]

\* C7: in remove_watermark_custom and add_watermark_custom the alpha map is
\* chosen by the region's size only: exactly 48 x 48 takes the small canonical
\* map itself, exactly 96 x 96 the large canonical map itself, and any other
\* size a map resampled from the large canonical map to the region's size,
\* never from the small one.
C7_CustomAlphaSource ==
    (CallOk /\ call.op \in CustomOps) =>
        IF call.region.width = 48 /\ call.region.height = 48
        THEN /\ call.from = "alpha_map_small_" /\ call.interp = "none"
             /\ call.alpha = alpha_map_small_
        ELSE IF call.region.width = 96 /\ call.region.height = 96
        THEN /\ call.from = "alpha_map_large_" /\ call.interp = "none"
             /\ call.alpha = alpha_map_large_
        ELSE /\ call.from = "alpha_map_large_"
             /\ call.interp \in {"INTER_AREA", "INTER_LINEAR"}
             /\ call.alpha.cols = call.region.width
             /\ call.alpha.rows = call.region.height
             /\ \A a \in TileValues(call.alpha) :
                    /\ \E lo \in TileValues(alpha_map_large_) : lo <= a
                    /\ \E hi \in TileValues(alpha_map_large_) : a <= hi

\* remove_watermark_custom on a 48 x 96 region used a map resampled from the
\* large one
C7_Witness ==
    /\ CallOk /\ call.op = "remove_watermark_custom"
    /\ call.region.width = 48 /\ call.region.height = 96
    /\ call.from = "alpha_map_large_" /\ call.interp = "INTER_AREA"
    /\ call.alpha.cols = 48 /\ call.alpha.rows = 96

\* C8: an engine call on an image with zero pixels fails with the error
\* "Empty image provided" and leaves the image and the engine's members as they
\* were, so that later calls find the engine as constructed.
C8_EmptyImageFails ==
    [][(Empty(image) /\ ncalls' = ncalls + 1) =>
            /\ call'.op \in RemoveOps \cup AddOps
            /\ call'.status = "error"
            /\ call'.what = "Empty image provided"
            /\ image' = image
            /\ alpha_map_small_' = alpha_map_small_
            /\ alpha_map_large_' = alpha_map_large_
            /\ logo_value_' = logo_value_]_vars

\* a call failed on an empty image and a later call on a valid image succeeded
C8_Witness ==
    /\ prior.op /= "none" /\ Empty(prior.pre)
    /\ prior.status = "error" /\ prior.what = "Empty image provided"
    /\ CallOk

\* the rectangle the last call was aimed at: the custom region, or the default
\* placement
TargetRect == IF call.op \in CustomOps THEN call.region ELSE PlacedRect

TargetInImage == RectAnd(TargetRect, Rect(0, 0, call.pre.cols, call.pre.rows))

\* the target of the last call lies partially or fully outside the image
TargetOutside == TargetInImage /= TargetRect

\* C9, with "unchanged" read up to the conversion to 3 channels of C10: for
\* any non-empty image and any target region (default placement or custom
\* rectangle) lying partially or fully outside the image, the call completes
\* without error, only pixels inside the intersection of the region with the
\* image are modified, and a region fully outside the image leaves the image
\* as it was.
C9_TotalOverRegions ==
    (CallOnPixels /\ TargetOutside) =>
        /\ call.status = "ok"
        /\ \A p \in DOMAIN call.pre.data :
                ~Contains(TargetInImage, p[1], p[2]) =>
                    image.data[p] = EnsureBGR(call.pre).data[p]
        /\ TargetInImage.width = 0 => image = EnsureBGR(call.pre)

\* the last call was aimed at a region of positive width and height
PositiveTarget ==
    call.op \in CustomOps => (call.region.width > 0 /\ call.region.height > 0)

\* what does hold of regions outside the image: a region of positive width and
\* height is intersected with the image, and a custom region without width or
\* height makes the call fail in cv::resize after the image was normalized
OutsideRegionBehaviour ==
    (CallOnPixels /\ TargetOutside) =>
        IF PositiveTarget
        THEN /\ call.status = "ok"
             /\ image.cols = call.pre.cols /\ image.rows = call.pre.rows
             /\ \A p \in DOMAIN call.pre.data :
                    ~Contains(TargetInImage, p[1], p[2]) =>
                        image.data[p] = EnsureBGR(call.pre).data[p]
             /\ TargetInImage.width = 0 => image = EnsureBGR(call.pre)
        ELSE /\ call.status = "error" /\ call.what = ResizeError
             /\ image = EnsureBGR(call.pre)

\* pixel p of mat as a 3-channel pixel: the first three of four channels, the
\* gray value three times, or the pixel itself
NormalPixel(mat, p) ==
    IF mat.channels = 4
    THEN <<mat.data[p][1], mat.data[p][2], mat.data[p][3]>>
    ELSE IF mat.channels = 1
    THEN <<mat.data[p][1], mat.data[p][1], mat.data[p][1]>>
    ELSE mat.data[p]

\* C10: after any successful remove/add (default or custom) the image has
\* exactly 3 channels: a 4-channel input has lost its fourth channel, a
\* 1-channel input is replicated, a 3-channel input keeps its layout, and the
\* blend has worked on the normalized pixels.
C10_NormalizedToThreeChannels ==
    CallOk =>
        /\ image.channels = 3
        /\ \A p \in DOMAIN image.data :
            /\ Len(image.data[p]) = 3
            /\ ~InBlend(p) => image.data[p] = NormalPixel(call.pre, p)
            /\ InBlend(p) => \A c \in 1..3 :
                    image.data[p][c] =
                        IF call.op \in RemoveOps
                        THEN BlendInverse(NormalPixel(call.pre, p)[c], AlphaOf(p),
                                          logo_value_)
                        ELSE BlendForward(NormalPixel(call.pre, p)[c], AlphaOf(p),
                                          logo_value_)

\* a 1-channel image came back with 3 channels and a blended pixel
C10_Witness ==
    /\ CallOk /\ call.pre.channels = 1
    /\ image.channels = 3
    /\ \E p \in DOMAIN image.data :
            InBlend(p) /\ image.data[p] /= NormalPixel(call.pre, p)

-----------------------------------------------------------------------------
(* Region detector (watermark_detector.cpp)                                 *)
(*                                                                          *)
(* The detector reads the image through cv::mean, cv::meanStdDev and        *)
(* cv::Canny over two rectangles.  An image handed to it is a record        *)
(* [cols, rows, channels, box, inside, outside]: box is a rectangle of the  *)
(* image, inside describes the pixels of box and outside all other pixels,  *)
(* each by its level (the mean pixel, one value per channel) and the        *)
(* standard deviation stddev of its gray values; inside also gives          *)
(* edge_pct, the percentage of the pixels of box that cv::Canny marks.      *)
(* Scores and confidences are exact fractions [num, den] in lowest terms.   *)

RECURSIVE GCD(_, _)
GCD(a, b) == IF b = 0 THEN a ELSE GCD(b, a % b)

Abs(n) == IF n < 0 THEN 0 - n ELSE n

\* the fraction n / d (d > 0) in lowest terms
Frac(n, d) ==
    LET g == GCD(Abs(n), d)
    IN  [num |-> n \div g, den |-> d \div g]

\* std::clamp(f, 0.0f, 1.0f)
Clamp01(f) ==
    IF f.num < 0 THEN Frac(0, 1) ELSE IF f.num > f.den THEN Frac(1, 1) ELSE f

\* rectangle r lies within rectangle outer
Within(r, outer) ==
    /\ outer.x <= r.x /\ r.x + r.width <= outer.x + outer.width
    /\ outer.y <= r.y /\ r.y + r.height <= outer.y + outer.height

\* cv::COLOR_BGR2GRAY / cv::COLOR_BGRA2GRAY on one 8-bit pixel <<b, g, r, ..>>
BGR2GRAY(px) == (1868 * px[1] + 9617 * px[2] + 4899 * px[3] + 8192) \div 16384

\* "Convert to grayscale": the gray image the scores are computed on
to_gray(mat) ==
    LET level(px) == IF mat.channels = 3 \/ mat.channels = 4
                     THEN BGR2GRAY(px) ELSE px[1]
    IN  [cols |-> mat.cols, rows |-> mat.rows, box |-> mat.box,
         inside  |-> [mean |-> level(mat.inside.level),
                      stddev |-> mat.inside.stddev,
                      edge_pct |-> mat.inside.edge_pct],
         outside |-> [mean |-> level(mat.outside.level),
                      stddev |-> mat.outside.stddev]]

\* cv::mean(gray(rect))[0]
mean(gray, rect) ==
    IF Within(rect, gray.box) THEN gray.inside.mean ELSE gray.outside.mean

\* the standard deviation cv::meanStdDev(gray(rect), ..) gives
meanStdDev(gray, rect) ==
    IF Within(rect, gray.box) THEN gray.inside.stddev ELSE gray.outside.stddev

\* cv::countNonZero of cv::Canny(gray(rect), edges, 30, 100)
CannyCount(gray, rect) ==
    IF Within(rect, gray.box)
    THEN (rect.width * rect.height * gray.inside.edge_pct) \div 100
    ELSE 0

\* a reference rectangle as high as the watermark region
reference_roi_same_size(roi, expected_pos, config, image_bounds) ==
    LET ref_height == Min(expected_pos.y, config.logo_size)
    IN  IF ref_height > 8
        THEN RectAnd(Rect(roi.x, roi.y - ref_height, roi.width, roi.height),
                     image_bounds)
        ELSE Rect(0, 0, 0, 0)

\* the reference rectangle above the watermark region, 0 x 0 when the code
\* does not take one
reference_roi(roi, expected_pos, config, image_bounds) ==
    LET ref_height == Min(expected_pos.y, config.logo_size)
    IN  IF ref_height > 8
        THEN RectAnd(Rect(roi.x, roi.y - ref_height, roi.width, ref_height),
                     image_bounds)
        ELSE Rect(0, 0, 0, 0)

\* brightness with the earlier divisor of 40
brightness_score_40(gray, roi, expected_pos, config, image_bounds) ==
    LET ref_roi == reference_roi(roi, expected_pos, config, image_bounds)
    IN  IF Min(expected_pos.y, config.logo_size) > 8 /\ ref_roi.height > 4
        THEN Clamp01(Frac(mean(gray, roi) - mean(gray, ref_roi), 40))
        ELSE Frac(0, 1)

\* "Stage 1: Brightness Analysis": clamp((region_mean - ref_mean) / 25, 0, 1)
brightness_score(gray, roi, expected_pos, config, image_bounds) ==
    LET ref_roi == reference_roi(roi, expected_pos, config, image_bounds)
    IN  IF Min(expected_pos.y, config.logo_size) > 8 /\ ref_roi.height > 4
        THEN Clamp01(Frac(mean(gray, roi) - mean(gray, ref_roi), 25))
        ELSE Frac(0, 1)

\* "Stage 2: Contrast Reduction Analysis":
\* clamp(1 - wm_stddev / ref_stddev, 0, 1) when ref_stddev > 3
variance_score(gray, roi, expected_pos, config, image_bounds) ==
    LET ref_roi == reference_roi(roi, expected_pos, config, image_bounds)
    IN  IF Min(expected_pos.y, config.logo_size) > 8 /\ ref_roi.height > 4
        THEN LET wm_stddev  == meanStdDev(gray, roi)
                 ref_stddev == meanStdDev(gray, ref_roi)
             IN  IF ref_stddev > 3
                 THEN Clamp01(Frac(ref_stddev - wm_stddev, ref_stddev))
                 ELSE Frac(0, 1)
        ELSE Frac(0, 1)

\* an edge score without the test of the density range
edge_score_any_density(gray, roi) ==
    LET count == CannyCount(gray, roi)
        total == roi.width * roi.height
    IN  Clamp01(Frac(15 * total - Abs(100 * count - 6 * total), 15 * total))

\* "Stage 3: Edge Pattern Analysis": edge_density = count / total; within
\* [0.01, 0.25] the score is clamp(1 - |edge_density - 0.06| / 0.15, 0, 1)
edge_score(gray, roi) ==
    LET count == CannyCount(gray, roi)
        total == roi.width * roi.height
    IN  IF 100 * count >= total /\ 100 * count <= 25 * total
        THEN Clamp01(Frac(15 * total - Abs(100 * count - 6 * total), 15 * total))
        ELSE Frac(0, 1)

\* the weights of the comment in the code: edge 30%
combine_edge_30(b, v, e) ==
    Clamp01(Frac(15 * b.den * v.den * e.den + 35 * b.num * v.den * e.den
                    + 35 * v.num * b.den * e.den + 30 * e.num * b.den * v.den,
                 100 * b.den * v.den * e.den))

\* "Combine Scores": clamp(0.15 + 0.35 b + 0.35 v + 0.15 e, 0, 1)
combine(b, v, e) ==
    Clamp01(Frac(15 * b.den * v.den * e.den + 35 * b.num * v.den * e.den
                    + 35 * v.num * b.den * e.den + 15 * e.num * b.den * v.den,
                 100 * b.den * v.den * e.den))

\* struct DetectionResult
DetectionResult(region, confidence, method) ==
    [region |-> region, confidence |-> confidence, method |-> method]

\* What detect_watermark_region returns, a std::optional<DetectionResult>,
\* with the path taken, the rectangle scored and the three scores
Outcome(has_value, value, path, roi, b, v, e) ==
    [has_value |-> has_value, value |-> value, path |-> path, roi |-> roi,
     brightness_score |-> b, variance_score |-> v, edge_score |-> e]

\* return std::nullopt
Nullopt ==
    Outcome(FALSE, DetectionResult(NoRect, Frac(0, 1), ""), "nullopt", NoRect,
            Frac(0, 1), Frac(0, 1), Frac(0, 1))

\* a usable-size test that asks for a whole Small logo
roi_unusable_logo(roi) == roi.width < 48 \/ roi.height < 48

\* a usable-size test that gives up only when both sides are short
roi_unusable_and(roi) == roi.width < 8 /\ roi.height < 8

\* roi.width < 8 || roi.height < 8
roi_unusable(roi) == roi.width < 8 \/ roi.height < 8

\* an out-of-bounds exit that returns nothing
out_of_bounds_nullopt(result, roi) == Nullopt

\* "Watermark region out of bounds": result.confidence = 0.0f; return result
out_of_bounds(result, roi) ==
    Outcome(TRUE, [result EXCEPT !.confidence = Frac(0, 1)], "out_of_bounds", roi,
            Frac(0, 1), Frac(0, 1), Frac(0, 1))

\* a scored exit that reports the rectangle it scored
scored_clipped(result, roi, b, v, e) ==
    Outcome(TRUE, [result EXCEPT !.confidence = combine(b, v, e), !.region = roi],
            "scored", roi, b, v, e)

\* result.confidence = clamp(confidence); return result
scored(result, roi, b, v, e) ==
    Outcome(TRUE, [result EXCEPT !.confidence = combine(b, v, e)],
            "scored", roi, b, v, e)

detect_watermark_region(mat, hint_rect) ==
    IF Empty(mat)
    THEN Nullopt
    ELSE
    LET config       == get_watermark_config(mat.cols, mat.rows)
        expected_pos == get_position(config, mat.cols, mat.rows)
        result       == DetectionResult(Rect(expected_pos.x, expected_pos.y,
                                             config.logo_size, config.logo_size),
                                        Frac(0, 1), "alpha_correlation")
        gray         == to_gray(mat)
        image_bounds == Rect(0, 0, mat.cols, mat.rows)
        roi          == RectAnd(result.region, image_bounds)
    IN  IF roi_unusable(roi)
        THEN out_of_bounds(result, roi)
        ELSE scored(result, roi,
                    brightness_score(gray, roi, expected_pos, config, image_bounds),
                    variance_score(gray, roi, expected_pos, config, image_bounds),
                    edge_score(gray, roi))

-----------------------------------------------------------------------------
(* Images handed to the detector *)

\* a pixel of gray value level in the given number of channels
GrayPixel(channels, level) == [c \in 1..channels |-> level]

\* an image whose box is the expected watermark region, as far as it lies in
\* the image
SyntheticImage(cols, rows, channels, outside, inside) ==
    [cols |-> cols, rows |-> rows, channels |-> channels,
     box |-> RectAnd(get_fallback_watermark_region(cols, rows),
                     Rect(0, 0, cols, rows)),
     inside |-> inside, outside |-> outside]

\* <<gray level, stddev>> of the pixels outside the box and
\* <<gray level, stddev, edge_pct>> of the pixels inside: a uniform image, a
\* watermark over texture, a bright box on a flat ground, a faint box, a dark
\* busy box, a box on the thresholds, texture without a box, a white flat box
\* with the peak edge density on a black textured ground
Scenes ==
    { << <<128, 0>>,  <<128, 0, 0>> >>,
      << <<100, 20>>, <<130, 10, 6>> >>,
      << <<100, 0>>,  <<125, 0, 6>> >>,
      << <<100, 20>>, <<105, 18, 1>> >>,
      << <<100, 4>>,  <<90, 30, 50>> >>,
      << <<100, 3>>,  <<125, 3, 21>> >>,
      << <<100, 20>>, <<100, 20, 25>> >>,
      << <<0, 20>>,   <<255, 0, 6>> >> }

\* width and height of the images handed to the detector
DetectorDims ==
    {<<0, 0>>, <<7, 200>>, <<8, 8>>, <<25, 200>>, <<40, 40>>, <<48, 88>>,
     <<200, 80>>, <<100, 89>>, <<200, 200>>, <<1024, 1024>>, <<1100, 1025>>,
     <<2000, 2000>>}

\* every scene in every size and channel count, and a 3-channel image with a
\* reddish box on a bluish ground
DetectorImages ==
    {SyntheticImage(d[1], d[2], ch,
                    [level |-> GrayPixel(ch, sc[1][1]), stddev |-> sc[1][2]],
                    [level |-> GrayPixel(ch, sc[2][1]), stddev |-> sc[2][2],
                     edge_pct |-> sc[2][3]]) :
        d \in DetectorDims, ch \in ChannelCounts, sc \in Scenes} \cup
    {SyntheticImage(d[1], d[2], 3,
                    [level |-> <<200, 50, 50>>, stddev |-> 20],
                    [level |-> <<50, 50, 200>>, stddev |-> 10, edge_pct |-> 6]) :
        d \in DetectorDims}

\* const std::optional<cv::Rect>& hint_rect
HintRects == {[has_value |-> FALSE, value |-> NoRect],
              [has_value |-> TRUE, value |-> Rect(0, 0, 16, 16)]}

-----------------------------------------------------------------------------
(* The detector, called with any image *)

DetectWatermarkRegion ==
    /\ \E mat \in DetectorImages, hint_rect \in HintRects :
        query' = [fn |-> "detect_watermark_region", width |-> mat.cols,
                  height |-> mat.rows, image |-> mat, hint_rect |-> hint_rect,
                  result |-> detect_watermark_region(mat, hint_rect)]
    /\ UNCHANGED <<alpha_map_small_, alpha_map_large_, logo_value_, image, call,
                   prior, ncalls, threads>>

NextDetector == DetectWatermarkRegion

SpecDetector == InitResolver /\ [][NextDetector]_vars

-----------------------------------------------------------------------------
(* Properties of the region detector (SpecDetector) *)

\* detect_watermark_region has been called
Detected == query.fn = "detect_watermark_region"

\* f <= g and f < g for fractions with positive denominators
FracLeq(f, g) == f.num * g.den <= g.num * f.den
FracLess(f, g) == f.num * g.den < g.num * f.den

\* the expected region of the image the detector was called on, and that
\* region clipped to the image
ExpectedRegion == get_fallback_watermark_region(query.width, query.height)
ClippedRegion == RectAnd(ExpectedRegion, Rect(0, 0, query.width, query.height))

C12_SmallerThanLogoZeroConfidence ==
    (Detected /\ ~Empty(query.image) /\ (query.width < 48 \/ query.height < 48)) =>
        /\ query.result.has_value
        /\ query.result.value.confidence = Frac(0, 1)

\* C12 amended: the confidence is exactly 0 when the width or the height is
\* below 8; an image of at least 8 x 8 that is smaller than the Small logo is
\* scored over the part of the region it holds, and when its height is below 48
\* its confidence lies between 0.15 and 0.30.
C12_BelowEightZeroConfidence ==
    (Detected /\ ~Empty(query.image) /\ (query.width < 48 \/ query.height < 48)) =>
        /\ query.result.has_value
        /\ (query.width < 8 \/ query.height < 8) =>
            /\ query.result.path = "out_of_bounds"
            /\ query.result.value.confidence = Frac(0, 1)
        /\ (query.width >= 8 /\ query.height >= 8) =>
            /\ query.result.path = "scored"
            /\ query.result.roi = ClippedRegion
            /\ FracLeq(Frac(15, 100), query.result.value.confidence)
            /\ query.height < 48 =>
                    FracLeq(query.result.value.confidence, Frac(30, 100))

\* the 40 x 40 image was scored and got a confidence of at least 0.15
C12_Witness ==
    /\ Detected /\ query.width = 40 /\ query.height = 40
    /\ query.result.path = "scored"
    /\ query.result.roi = Rect(0, 0, 40, 40)
    /\ FracLeq(Frac(15, 100), query.result.value.confidence)

\* f is a fraction in [0, 1]
Unit(f) == f.den > 0 /\ 0 <= f.num /\ f.num <= f.den

UniformImage ==
    /\ query.image.inside.level = query.image.outside.level
    /\ query.image.inside.stddev = 0 /\ query.image.outside.stddev = 0
    /\ query.image.inside.edge_pct = 0

\* C14: for a uniform image on which the scored path is taken, brightness,
\* variance and edge evidence all contribute 0 and the confidence does not
\* exceed the base score 0.15.
C14_UniformImageBaseScore ==
    (Detected /\ query.result.path = "scored" /\ UniformImage) =>
        /\ query.result.brightness_score = Frac(0, 1)
        /\ query.result.variance_score = Frac(0, 1)
        /\ query.result.edge_score = Frac(0, 1)
        /\ FracLeq(query.result.value.confidence, Frac(15, 100))

\* a uniform image with rows above the region was scored at exactly 0.15
C14_Witness ==
    /\ Detected /\ query.result.path = "scored" /\ UniformImage
    /\ query.width = 200 /\ query.height = 200
    /\ query.result.value.confidence = Frac(15, 100)

\* the gray image the detector computed its scores on
GrayOfQuery == to_gray(query.image)

\* the expected region is at least 25 gray levels brighter than the rest
Bright25 == GrayOfQuery.inside.mean - GrayOfQuery.outside.mean >= 25

\* the image holds a bright, low-variance, edge-patterned region exactly at
\* the expected position: the whole expected region lies in the image, is at
\* least 25 gray levels brighter than the rest, has at most half the standard
\* deviation of a textured rest, and has the peak edge density of 6%
MarkAtExpected ==
    /\ ExpectedRegion = ClippedRegion
    /\ Bright25
    /\ GrayOfQuery.outside.stddev > 3
    /\ 2 * GrayOfQuery.inside.stddev <= GrayOfQuery.outside.stddev
    /\ GrayOfQuery.inside.edge_pct = 6

\* C15 as stated: for a synthetic image containing a bright, low-variance,
\* edge-patterned region exactly at the expected watermark position,
\* detect_watermark_region returns confidence strictly greater than 0.5.
C15_MarkedImageAboveHalf ==
    (Detected /\ ~Empty(query.image) /\ MarkAtExpected) =>
        /\ query.result.has_value
        /\ FracLess(Frac(1, 2), query.result.value.confidence)

\* the region has a lower standard deviation than a reference band of
\* standard deviation above 3
LowerVariance ==
    /\ GrayOfQuery.outside.stddev > 3
    /\ GrayOfQuery.inside.stddev < GrayOfQuery.outside.stddev

\* the edge density of the scored rectangle lies in [0.01, 0.21)
EdgeDensityScores ==
    LET count == CannyCount(GrayOfQuery, query.result.roi)
        total == query.result.roi.width * query.result.roi.height
    IN  100 * count >= total /\ 100 * count < 21 * total

\* C15 amended: when more than 8 rows of the image lie above the expected
\* region, and the region is at least 25 gray levels brighter than the band
\* above it and has a lower standard deviation than that band or an edge
\* density in [0.01, 0.21), the confidence is strictly greater than 0.5; when
\* at most 8 rows lie above the expected region, brightness and variance
\* contribute nothing and the confidence is at most 0.30 whatever the image
\* shows.
C15_MarkedImageWithRowsAbove ==
    (Detected /\ query.result.path = "scored") =>
        /\ (/\ query.result.value.region.y > 8
            /\ Bright25
            /\ LowerVariance \/ EdgeDensityScores)
           => FracLess(Frac(1, 2), query.result.value.confidence)
        /\ query.result.value.region.y <= 8 =>
                /\ query.result.brightness_score = Frac(0, 1)
                /\ query.result.variance_score = Frac(0, 1)
                /\ FracLeq(query.result.value.confidence, Frac(30, 100))

\* a marked image with rows above the region was scored above 0.5
C15_Witness ==
    /\ Detected /\ query.result.path = "scored" /\ MarkAtExpected
    /\ query.result.value.region.y > 8
    /\ FracLess(Frac(1, 2), query.result.value.confidence)

\* C16 as stated: on the scored path the region of the DetectionResult is the
\* expected region clipped to the image bounds, the rectangle whose pixels were
\* scored, so it lies inside [0, W) x [0, H).
C16_RegionIsClipped ==
    (Detected /\ query.result.path = "scored") =>
        /\ query.result.value.region = ClippedRegion
        /\ query.result.value.region = query.result.roi
        /\ Within(query.result.value.region, Rect(0, 0, query.width, query.height))

\* C16 amended: on the scored path the region of the DetectionResult is the
\* expected region, not clipped; the pixels scored are those of its
\* intersection with the image; the region lies inside the image exactly when
\* the image is at least logo_size wide and high.
C16_RegionIsExpected ==
    (Detected /\ query.result.path = "scored") =>
        /\ query.result.value.region = ExpectedRegion
        /\ query.result.roi = ClippedRegion
        /\ Within(query.result.roi, Rect(0, 0, query.width, query.height))
        /\ Within(query.result.value.region, Rect(0, 0, query.width, query.height))
            <=> (query.width >= ExpectedRegion.width
                 /\ query.height >= ExpectedRegion.height)

\* the 40 x 40 image was scored over 40 x 40 pixels and reported as 48 x 48
C16_Witness ==
    /\ Detected /\ query.result.path = "scored"
    /\ query.width = 40 /\ query.height = 40
    /\ query.result.roi = Rect(0, 0, 40, 40)
    /\ query.result.value.region = Rect(0, 0, 48, 48)

\* C20: if the expected region intersected with the image bounds has width < 8
\* or height < 8, detect_watermark_region returns with confidence exactly 0 and
\* the expected, unclipped region as the box, having computed no evidence; if
\* both clipped dimensions are >= 8 the scored path is taken.
C20_SmallIntersectionZeroConfidence ==
    (Detected /\ ~Empty(query.image)) =>
        IF ClippedRegion.width < 8 \/ ClippedRegion.height < 8
        THEN /\ query.result.has_value
             /\ query.result.path = "out_of_bounds"
             /\ query.result.value.confidence = Frac(0, 1)
             /\ query.result.value.region = ExpectedRegion
             /\ query.result.brightness_score = Frac(0, 1)
             /\ query.result.variance_score = Frac(0, 1)
             /\ query.result.edge_score = Frac(0, 1)
        ELSE /\ query.result.has_value
             /\ query.result.path = "scored"
             /\ query.result.roi = ClippedRegion
             /\ FracLeq(Frac(15, 100), query.result.value.confidence)

\* an image 7 pixels wide and 200 high, marked in its 7 x 48 corner, got
\* confidence 0 with the 48 x 48 expected region as the box
C20_Witness ==
    /\ Detected /\ query.width = 7 /\ query.height = 200
    /\ Bright25
    /\ ClippedRegion = Rect(0, 120, 7, 48)
    /\ query.result.path = "out_of_bounds"
    /\ query.result.value.confidence = Frac(0, 1)
    /\ query.result.value.region = Rect(0, 120, 48, 48)

-----------------------------------------------------------------------------
(* Properties of the compositing engine (Spec), continued *)

DefaultOps == {"remove_watermark", "add_watermark"}

\* C18: in remove_watermark and add_watermark a forced size class decides the
\* margins, the logo size and the alpha map together (Small: 32/32/48 with the
\* 48 x 48 map, Large: 64/64/96 with the 96 x 96 map) whatever the image
\* dimensions; with no forced size the class is Large exactly when width and
\* height are both above 1024.
C18_ForcedSizeOverrides ==
    (CallOk /\ call.op \in DefaultOps) =>
        LET w      == call.pre.cols
            h      == call.pre.rows
            class  == IF call.force_size /= "none" THEN call.force_size
                      ELSE IF w > 1024 /\ h > 1024 THEN "Large" ELSE "Small"
            margin == IF class = "Small" THEN 32 ELSE 64
            logo   == IF class = "Small" THEN 48 ELSE 96
        IN  /\ call.size = class
            /\ call.pos = Point(Max(0, w - margin - logo), Max(0, h - margin - logo))
            /\ call.alpha.cols = logo /\ call.alpha.rows = logo
            /\ call.from = IF class = "Small" THEN "alpha_map_small_"
                           ELSE "alpha_map_large_"
            /\ call.alpha = IF class = "Small" THEN alpha_map_small_
                            ELSE alpha_map_large_

\* remove_watermark forced to Small on the 1100 x 1025 image, which is Large by
\* its dimensions, used the 48 x 48 map at (1020, 945)
C18_Witness ==
    /\ CallOk /\ call.op = "remove_watermark"
    /\ call.pre.cols = 1100 /\ call.pre.rows = 1025
    /\ call.force_size = "Small"
    /\ call.pos = Point(1020, 945)
    /\ call.from = "alpha_map_small_"

\* C19: the alpha map handed to every blend has exactly the dimensions of its
\* target region: the canonical maps are 48 x 48 and 96 x 96 whatever the
\* dimensions of the reference captures, and for a custom region of width w and
\* height h the map is w x h.
C19_AlphaMapMatchesRegion ==
    /\ alpha_map_small_.cols = 48 /\ alpha_map_small_.rows = 48
    /\ alpha_map_large_.cols = 96 /\ alpha_map_large_.rows = 96
    /\ (CallOk /\ call.op \in DefaultOps) =>
        /\ call.alpha.cols = (IF call.size = "Small" THEN 48 ELSE 96)
        /\ call.alpha.rows = call.alpha.cols
    /\ (CallOk /\ call.op \in CustomOps) =>
        /\ call.alpha.cols = call.region.width
        /\ call.alpha.rows = call.region.height

\* the engine built from the 50 x 50 and 100 x 120 captures (logo value 200)
\* blended a 48 x 96 region with a 48 x 96 map
C19_Witness ==
    /\ logo_value_ = 200
    /\ alpha_map_small_.cols = 48 /\ alpha_map_large_.rows = 96
    /\ CallOk /\ call.op \in CustomOps
    /\ call.region.width = 48 /\ call.region.height = 96
    /\ call.alpha.cols = 48 /\ call.alpha.rows = 96

-----------------------------------------------------------------------------
(* Two threads calling one engine, each on its own image.  A call runs in   *)
(* three steps that interleave with the other thread's: the empty check and *)
(* the conversion to 3 channels, the choice of the alpha map, the blend.    *)

Threads == {1, 2}

\* the image of each thread
ThreadImage(t) ==
    IF t = 1 THEN MkImage(1100, 1025, 3, 90) ELSE MkImage(1024, 1024, 4, 90)

\* custom region of the threads: a size that has to be resampled
ThreadRegions(mat) == {Rect(mat.cols - 160, mat.rows - 160, 100, 120)}

\* the image the threads hand to the detector
ThreadDetectorImages ==
    {SyntheticImage(200, 200, 3, [level |-> GrayPixel(3, 100), stddev |-> 20],
                    [level |-> GrayPixel(3, 130), stddev |-> 10, edge_pct |-> 6])}

IdleThread(mat, n, detected) ==
    [pc |-> "idle", image |-> mat, ncalls |-> n, op |-> "none", region |-> NoRect,
     pos |-> NoPoint, from |-> "none", local |-> NoMap, detected |-> detected]

\* a create_interpolated_alpha that resizes its source in place
source_after_interpolation_in_place(target_width, target_height, pick) ==
    IF target_width = alpha_map_large_.cols /\ target_height = alpha_map_large_.rows
    THEN alpha_map_large_
    ELSE resize(alpha_map_large_, target_width, target_height, "INTER_AREA", pick)

\* alpha_map_large_ after create_interpolated_alpha: source is a const
\* reference, source.clone() and cv::resize(source, interpolated, ..) write to
\* another cv::Mat
source_after_interpolation(target_width, target_height, pick) == alpha_map_large_

\* image.empty() and "Ensure BGR format"
ThreadEnter(t) ==
    /\ threads[t].pc = "idle"
    /\ threads[t].ncalls < MaxCalls
    /\ \E op \in RemoveOps \cup AddOps, region \in ThreadRegions(threads[t].image) :
        threads' = [threads EXCEPT ![t] =
            IF Empty(@.image)
            THEN IdleThread(@.image, @.ncalls + 1, @.detected)
            ELSE [@ EXCEPT !.pc = "normalized", !.image = EnsureBGR(@),
                           !.op = op,
                           !.region = IF op \in CustomOps THEN region ELSE NoRect]]
    /\ UNCHANGED <<alpha_map_small_, alpha_map_large_, logo_value_, image, call,
                   prior, ncalls, query>>

\* remove_watermark / add_watermark: position and get_alpha_map, a reference
\* to the member
ThreadSelectDefault(t) ==
    /\ threads[t].pc = "normalized"
    /\ threads[t].op \in DefaultOps
    /\ LET pl == IF threads[t].op = "remove_watermark"
                 THEN remove_placement(threads[t].image, "none")
                 ELSE add_placement(threads[t].image, "none")
       IN  threads' = [threads EXCEPT ![t] =
                [@ EXCEPT !.pc = "selected", !.pos = pl.pos,
                          !.from = pl.alpha_map.from]]
    /\ UNCHANGED <<alpha_map_small_, alpha_map_large_, logo_value_, image, call,
                   prior, ncalls, query>>

\* remove_watermark_custom / add_watermark_custom: a canonical map by
\* reference, or the cv::Mat create_interpolated_alpha returns
ThreadSelectCustom(t) ==
    /\ threads[t].pc = "normalized"
    /\ threads[t].op \in CustomOps
    /\ \E pick \in ResizePicks :
        LET region == threads[t].region
            sel    == IF threads[t].op = "remove_watermark_custom"
                      THEN remove_custom_alpha(region, pick)
                      ELSE add_custom_alpha(region, pick)
        IN  /\ threads' = [threads EXCEPT ![t] =
                    IF sel.status = "error"
                    THEN IdleThread(@.image, @.ncalls + 1, @.detected)
                    ELSE [@ EXCEPT !.pc = "selected",
                                   !.pos = Point(region.x, region.y),
                                   !.from = sel.from,
                                   !.local = IF sel.interp = "none"
                                             THEN NoMap ELSE sel.map]]
            /\ alpha_map_large_' =
                    IF sel.interp = "none"
                    THEN alpha_map_large_
                    ELSE source_after_interpolation(region.width, region.height,
                                                    pick)
    /\ UNCHANGED <<alpha_map_small_, logo_value_, image, call, prior, ncalls,
                   query>>

\* the blend reads the map it was given, the member as it is now or the
\* thread's own cv::Mat, and writes the thread's image
ThreadBlend(t) ==
    /\ threads[t].pc = "selected"
    /\ LET alpha_map == IF threads[t].local /= NoMap THEN threads[t].local
                        ELSE IF threads[t].from = "alpha_map_small_"
                        THEN alpha_map_small_ ELSE alpha_map_large_
           blended   == IF threads[t].op \in RemoveOps
                        THEN remove_watermark_alpha_blend(threads[t].image, alpha_map,
                                                          threads[t].pos, logo_value_)
                        ELSE add_watermark_alpha_blend(threads[t].image, alpha_map,
                                                       threads[t].pos, logo_value_)
       IN  threads' = [threads EXCEPT ![t] =
                IdleThread(blended, @.ncalls + 1, @.detected)]
    /\ UNCHANGED <<alpha_map_small_, alpha_map_large_, logo_value_, image, call,
                   prior, ncalls, query>>

\* detect_watermark_region reads its image only
ThreadDetect(t) ==
    /\ threads[t].pc = "idle"
    /\ threads[t].ncalls < MaxCalls
    /\ \E mat \in ThreadDetectorImages :
        threads' = [threads EXCEPT ![t] =
            IdleThread(@.image, @.ncalls + 1,
                       detect_watermark_region(mat, [has_value |-> FALSE,
                                                     value |-> NoRect]).value.confidence)]
    /\ UNCHANGED <<alpha_map_small_, alpha_map_large_, logo_value_, image, call,
                   prior, ncalls, query>>

\* the engine whose large map holds two alphas
InitConcurrent ==
    /\ Constructed(CHOOSE s \in EngineSetups : Len(s.bg_large.tile) = 2, "min")
    /\ image = MkImage(0, 0, 3, 0)
    /\ call = NoCall
    /\ prior = NoCall
    /\ ncalls = 0
    /\ query = NoQuery
    /\ threads = [t \in Threads |-> IdleThread(ThreadImage(t), 0, Frac(0, 1))]

NextConcurrent ==
    \E t \in Threads :
        \/ ThreadEnter(t)
        \/ ThreadSelectDefault(t)
        \/ ThreadSelectCustom(t)
        \/ ThreadBlend(t)
        \/ ThreadDetect(t)

SpecConcurrent == InitConcurrent /\ [][NextConcurrent]_vars

\* C17: after construction no operation modifies the two canonical alpha maps:
\* no step of a remove, add (default or custom) or detect call, in any
\* interleaving of two threads working on different images with the same
\* engine, changes alpha_map_small_ or alpha_map_large_; a custom region of
\* another size works on a copy.
C17_AlphaMapsImmutable ==
    [][/\ alpha_map_small_' = alpha_map_small_
       /\ alpha_map_large_' = alpha_map_large_]_vars

\* thread 2 holds a resampled 100 x 120 map of its own while thread 1 has
\* finished a call, and the large map is still 96 x 96
C17_Witness ==
    /\ threads /= << >>
    /\ threads[1].ncalls >= 1 /\ threads[1].pc = "idle"
    /\ threads[2].pc = "selected"
    /\ threads[2].local.cols = 100 /\ threads[2].local.rows = 120
    /\ alpha_map_large_.cols = 96 /\ alpha_map_large_.rows = 96

-----------------------------------------------------------------------------
(* create_interpolated_alpha, called with any target size (SpecInterpolation) *)

\* int target_width, int target_height: none, one pixel, the canonical sizes
\* and their neighbours, and a size above the source
TargetDims == {0 - 1, 0, 1, 48, 95, 96, 97, 200}

CreateInterpolatedAlpha ==
    \E w \in TargetDims, h \in TargetDims, pick \in ResizePicks :
        Answered("create_interpolated_alpha", w, h,
                 create_interpolated_alpha(w, h, pick))

InitInterpolation ==
    /\ \E setup \in EngineSetups, pick \in ResizePicks : Constructed(setup, pick)
    /\ image = MkImage(0, 0, 3, 0)
    /\ call = NoCall
    /\ prior = NoCall
    /\ ncalls = 0
    /\ query = NoQuery
    /\ threads = << >>

NextInterpolation == CreateInterpolatedAlpha

SpecInterpolation == InitInterpolation /\ [][NextInterpolation]_vars

\* create_interpolated_alpha has been called
Interpolated == query.fn = "create_interpolated_alpha"

\* C21: resampling the Large alpha map to w x h takes area-averaging exactly
\* when w <= 96 and h <= 96 and not both are 96, bilinear interpolation
\* whenever w or h is above 96, and for 96 x 96 gives a copy of the Large map
\* without resampling; a resampled map has the target size and values within
\* the extremes of the Large map
C21_InterpolationMethod ==
    Interpolated =>
        LET w == query.width
            h == query.height
            r == query.result
        IN  /\ r.interp = "INTER_AREA"
                <=> (w <= 96 /\ h <= 96 /\ ~(w = 96 /\ h = 96))
            /\ r.interp = "INTER_LINEAR" <=> (w > 96 \/ h > 96)
            /\ r.interp = "clone" <=> (w = 96 /\ h = 96)
            /\ r.interp = "clone" => r.status = "ok" /\ r.map = alpha_map_large_
            /\ r.from = "alpha_map_large_"
            /\ (r.status = "ok" /\ r.interp /= "clone") =>
                    /\ r.map.cols = w /\ r.map.rows = h
                    /\ \A a \in TileValues(r.map) :
                          /\ SetMin(TileValues(alpha_map_large_)) <= a
                          /\ a <= SetMax(TileValues(alpha_map_large_))

\* a target that grows in width and shrinks in height has been resampled
\* with bilinear interpolation
C21_Witness ==
    /\ Interpolated
    /\ query.width = 200 /\ query.height = 48
    /\ query.result.status = "ok"
    /\ query.result.interp = "INTER_LINEAR"
    /\ query.result.map.cols = 200 /\ query.result.map.rows = 48

-----------------------------------------------------------------------------
(* Properties of the region detector (SpecDetector), continued *)

\* the reference rectangle of the call: ref_roi of both stages
ReferencePatch ==
    reference_roi(query.result.roi,
                  Point(query.result.value.region.x, query.result.value.region.y),
                  get_watermark_config(query.width, query.height),
                  Rect(0, 0, query.width, query.height))

\* the stages took a reference rectangle
PatchFormed == ReferencePatch.width > 0 /\ ReferencePatch.height > 4

\* min(region_y, region_height) of the region the call reports
VerticalOffset ==
    Min(query.result.value.region.y, query.result.value.region.height)

\* what both stages give for a reference patch: clamp(diff / 25, 0, 1) and,
\* for a reference stddev above 3, clamp(1 - stddev ratio, 0, 1)
EvidenceAgainst(patch) ==
    LET roi        == query.result.roi
        ref_stddev == meanStdDev(GrayOfQuery, patch)
    IN  /\ query.result.brightness_score
            = Clamp01(Frac(mean(GrayOfQuery, roi) - mean(GrayOfQuery, patch), 25))
        /\ query.result.variance_score
            = IF ref_stddev > 3
              THEN Clamp01(Frac(ref_stddev - meanStdDev(GrayOfQuery, roi),
                                ref_stddev))
              ELSE Frac(0, 1)

\* the patch lies immediately above the scored rectangle, in its columns,
\* VerticalOffset rows up
PatchAbove(patch) ==
    /\ patch.x = query.result.roi.x
    /\ patch.width = query.result.roi.width
    /\ patch.y + patch.height = query.result.roi.y
    /\ query.result.roi.y - patch.y = VerticalOffset

\* C22 as stated: brightness and contrast-reduction evidence are computed
\* against a reference patch immediately above the candidate region, of the
\* same size as the candidate, at vertical offset min(region_y, region_height);
\* brightness is clamp((candidate mean - reference mean) / 25, 0, 1), variance
\* is computed only when the reference stddev exceeds 3.0, and both are 0
\* whenever the patch cannot be formed.
C22_ReferencePatchSameSize ==
    (Detected /\ query.result.path = "scored") =>
        /\ PatchFormed =>
                /\ PatchAbove(ReferencePatch)
                /\ ReferencePatch.width = query.result.roi.width
                /\ ReferencePatch.height = query.result.roi.height
                /\ EvidenceAgainst(ReferencePatch)
        /\ ~PatchFormed =>
                /\ query.result.brightness_score = Frac(0, 1)
                /\ query.result.variance_score = Frac(0, 1)

\* C22 amended: the reference patch lies immediately above the candidate
\* region, has the candidate's width and min(region_y, region_height) rows, so
\* it has the candidate's size exactly when region_y >= region_height; it is
\* formed exactly when min(region_y, region_height) > 8; brightness is
\* clamp((candidate mean - reference mean) / 25, 0, 1), variance is
\* clamp(1 - candidate stddev / reference stddev, 0, 1) when the reference
\* stddev exceeds 3 and 0 otherwise, and both are 0 when no patch is formed.
C22_ReferencePatchAbove ==
    (Detected /\ query.result.path = "scored") =>
        /\ PatchFormed <=> VerticalOffset > 8
        /\ PatchFormed =>
                /\ PatchAbove(ReferencePatch)
                /\ ReferencePatch.width = query.result.roi.width
                /\ ReferencePatch.height = VerticalOffset
                /\ ReferencePatch.height = query.result.roi.height
                    <=> query.result.value.region.y
                            >= query.result.value.region.height
                /\ Within(ReferencePatch, Rect(0, 0, query.width, query.height))
                /\ EvidenceAgainst(ReferencePatch)
        /\ ~PatchFormed =>
                /\ query.result.brightness_score = Frac(0, 1)
                /\ query.result.variance_score = Frac(0, 1)

\* a region 9 rows below the top edge was scored against a patch of 9 rows,
\* lower than the region: brightness 1 and variance 1/2
C22_Witness ==
    /\ Detected /\ query.result.path = "scored"
    /\ query.result.value.region.y = 9
    /\ PatchFormed
    /\ ReferencePatch.height = 9
    /\ query.result.roi.height = 48
    /\ query.result.brightness_score = Frac(1, 1)
    /\ query.result.variance_score = Frac(1, 2)

-----------------------------------------------------------------------------
(* Default placement across the engine, the fallback region and the detector *)
(* (Spec)                                                                     *)

\* the rectangle call c placed its alpha map at
BlendRect(c) == Rect(c.pos.x, c.pos.y, c.alpha.cols, c.alpha.rows)

\* images of the given size as the detector may be handed them: a flat one
\* and one with a watermark over texture
DetectorViews(cols, rows) ==
    {SyntheticImage(cols, rows, 3,
                    [level |-> GrayPixel(3, 128), stddev |-> 0],
                    [level |-> GrayPixel(3, 128), stddev |-> 0, edge_pct |-> 0]),
     SyntheticImage(cols, rows, 1,
                    [level |-> GrayPixel(1, 100), stddev |-> 20],
                    [level |-> GrayPixel(1, 130), stddev |-> 10, edge_pct |-> 6])}

\* c is a call of remove_watermark or add_watermark that returned
DefaultCallOk(c) == c.op \in DefaultOps /\ ~Empty(c.pre) /\ c.status = "ok"

\* C23: with no forced size, the rectangle remove_watermark and add_watermark
\* blend at equals get_fallback_watermark_region(W, H) and the region
\* detect_watermark_region reports for a W x H image; two calls of
\* remove_watermark or add_watermark on images of the same size with the same
\* force_size take the same size, position and alpha map.
C23_DefaultPlacementAgrees ==
    /\ (DefaultCallOk(call) /\ call.force_size = "none") =>
        /\ BlendRect(call)
            = get_fallback_watermark_region(call.pre.cols, call.pre.rows)
        /\ \A mat \in DetectorViews(call.pre.cols, call.pre.rows) :
              \A hint_rect \in HintRects :
                LET detected == detect_watermark_region(mat, hint_rect)
                IN  /\ detected.has_value
                    /\ detected.value.region = BlendRect(call)
    /\ (/\ DefaultCallOk(call) /\ DefaultCallOk(prior)
        /\ call.pre.cols = prior.pre.cols /\ call.pre.rows = prior.pre.rows
        /\ call.force_size = prior.force_size) =>
        /\ call.size = prior.size
        /\ call.pos = prior.pos
        /\ call.from = prior.from
        /\ call.alpha = prior.alpha

\* add_watermark after remove_watermark on the 2000 x 1000 image, neither
\* with a forced size: both blended the small map at the fallback region
\* (1920, 920, 48, 48)
C23_Witness ==
    /\ DefaultCallOk(call) /\ DefaultCallOk(prior)
    /\ prior.op = "remove_watermark" /\ call.op = "add_watermark"
    /\ call.force_size = "none" /\ prior.force_size = "none"
    /\ call.pre.cols = 2000 /\ call.pre.rows = 1000
    /\ prior.pre.cols = 2000 /\ prior.pre.rows = 1000
    /\ BlendRect(call) = Rect(1920, 920, 48, 48)
    /\ BlendRect(prior) = BlendRect(call)
    /\ call.from = "alpha_map_small_"
    /\ get_fallback_watermark_region(2000, 1000) = BlendRect(call)

====
